---- MODULE Spec2Model ----
(***************************************************************************)
(* Model of the technical-indicator utilities                              *)
(*   src/frontend/utils/technical-indicators.ts                            *)
(*   src/frontend/utils/trading-utilities.ts (analyzeMACDSignal)           *)
(*                                                                         *)
(* A JavaScript number is modelled as an extended rational <<n, d>>:       *)
(*   d > 0  : the finite value n/d, in lowest terms                        *)
(*   <<0,0>>: NaN (also what a read of `undefined` becomes in every        *)
(*            arithmetic operation and comparison used by the code)        *)
(*   <<1,0>>: +Infinity          <<-1,0>>: -Infinity                       *)
(*   <<a1, a2, b1, b2, r>>: the irrational value a1/a2 + (b1/b2) * sqrt(r),*)
(*            r a square-free integer > 1 and b1 # 0; only Math.sqrt       *)
(*            produces such a value (the Bollinger band edges)             *)
(* Arithmetic is exact: IEEE rounding and overflow to Infinity are not     *)
(* modelled.  The division by zero, the NaN propagation and the            *)
(* comparisons with NaN, which decide the behaviour at the boundaries,     *)
(* follow IEEE 754 / ECMAScript.  Every zero divisor the code can produce  *)
(* from finite inputs is +0 (see calculateRSI), so zero carries no sign.   *)
(***************************************************************************)
EXTENDS Integers, Sequences, FiniteSets, TLC

\* ------------------------------------------------------------ bounds
\* Longest input price series fed to an indicator.
MaxLen == 4
\* Largest period (window) argument; periods are drawn from 1..MaxPeriod.
MaxPeriod == 3
\* Longest macd / signal line handed directly to analyzeMACDSignal.
MaxLineLen == 3
\* Longest histogram handed directly to analyzeMACDSignal.
MaxHistLen == 1
\* Longest candle series fed to calculateATR.
MaxCandles == 2
\* Largest band-width multiplier (stdDev) of calculateBollingerBands.
MaxMult == 2

MaxHeaderItems == 3

MaxRows == 3

\* ------------------------------------------------------------ numbers
NaN == <<0, 0>>
PosInf == <<1, 0>>
NegInf == <<-1, 0>>

AbsInt(i) == IF i < 0 THEN -i ELSE i

SgnInt(i) == IF i < 0 THEN -1 ELSE IF i > 0 THEN 1 ELSE 0

RECURSIVE GCD(_, _)
GCD(a, b) == IF b = 0 THEN a ELSE GCD(b, a % b)

\* The finite value n/d (d # 0) in lowest terms with a positive denominator.
Norm(n, d) ==
  LET g == GCD(AbsInt(n), AbsInt(d))
      s == IF d < 0 THEN -1 ELSE 1
  IN  <<(s * n) \div g, (s * d) \div g>>

Num(i) == <<i, 1>>

\* isNaN(x) of ECMAScript.
isNaN(x) == x = NaN

IsInf(x) == x[2] = 0 /\ x[1] # 0

IsZero(x) == Len(x) = 2 /\ x[2] > 0 /\ x[1] = 0

\* x is a1/a2 + (b1/b2) * sqrt(r) with an irrational part.
IsSurd(x) == Len(x) = 5

RatPart(x) == <<x[1], x[2]>>

SurdCoef(x) == IF IsSurd(x) THEN <<x[3], x[4]>> ELSE <<0, 1>>

MkSurd(a, b, r) == IF b[1] = 0 THEN a ELSE <<a[1], a[2], b[1], b[2], r>>

\* An operation on irrational operands that no code path performs: it has no
\* value, so an evaluation that reached it would stop with an error.
Unsupported == CHOOSE x \in {} : TRUE

\* The radicand shared by x and y, of which at least one is irrational.
CommonRadicand(x, y) ==
  IF IsSurd(x) /\ IsSurd(y)
    THEN (IF x[5] = y[5] THEN x[5] ELSE Unsupported)
  ELSE IF IsSurd(x) THEN x[5] ELSE y[5]

Neg(x) == IF IsSurd(x) THEN <<-x[1], x[2], -x[3], x[4], x[5]>> ELSE <<-x[1], x[2]>>

\* x + y on rationals, NaN and the infinities.
QAdd(x, y) ==
  IF isNaN(x) \/ isNaN(y) THEN NaN
  ELSE IF IsInf(x) /\ IsInf(y) THEN (IF x = y THEN x ELSE NaN)
  ELSE IF IsInf(x) THEN x
  ELSE IF IsInf(y) THEN y
  ELSE Norm(x[1] * y[2] + y[1] * x[2], x[2] * y[2])

\* x * y on rationals, NaN and the infinities.
QMul(x, y) ==
  IF isNaN(x) \/ isNaN(y) THEN NaN
  ELSE IF IsInf(x) \/ IsInf(y)
    THEN (IF IsZero(x) \/ IsZero(y) THEN NaN
          ELSE <<SgnInt(x[1]) * SgnInt(y[1]), 0>>)
  ELSE Norm(x[1] * y[1], x[2] * y[2])

\* x + y
Add(x, y) ==
  IF ~IsSurd(x) /\ ~IsSurd(y) THEN QAdd(x, y)
  ELSE IF isNaN(x) \/ isNaN(y) THEN NaN
  ELSE IF IsInf(x) THEN x
  ELSE IF IsInf(y) THEN y
  ELSE MkSurd(QAdd(RatPart(x), RatPart(y)), QAdd(SurdCoef(x), SurdCoef(y)),
              CommonRadicand(x, y))

\* x - y
Sub(x, y) == Add(x, Neg(y))

\* x * y ; (a + b sqrt r)(c + d sqrt r) = (ac + bdr) + (ad + bc) sqrt r
Mul(x, y) ==
  IF ~IsSurd(x) /\ ~IsSurd(y) THEN QMul(x, y)
  ELSE IF isNaN(x) \/ isNaN(y) THEN NaN
  ELSE IF IsInf(x) \/ IsInf(y) THEN Unsupported
  ELSE LET r == CommonRadicand(x, y)
           a == RatPart(x)
           b == SurdCoef(x)
           c == RatPart(y)
           d == SurdCoef(y)
       IN  MkSurd(QAdd(QMul(a, c), QMul(QMul(b, d), <<r, 1>>)),
                  QAdd(QMul(a, d), QMul(b, c)), r)

\* x / y on rationals, NaN and the infinities  (a zero divisor is +0)
QDiv(x, y) ==
  IF isNaN(x) \/ isNaN(y) THEN NaN
  ELSE IF IsInf(x) /\ IsInf(y) THEN NaN
  ELSE IF IsInf(x) THEN <<x[1] * (IF y[1] < 0 THEN -1 ELSE 1), 0>>
  ELSE IF IsInf(y) THEN Num(0)
  ELSE IF IsZero(y) THEN <<SgnInt(x[1]), 0>>
  ELSE Norm(x[1] * y[2], x[2] * y[1])

\* x / y ; an irrational x is divided part by part by a finite non-zero y.
Div(x, y) ==
  IF ~IsSurd(x) /\ ~IsSurd(y) THEN QDiv(x, y)
  ELSE IF isNaN(x) \/ isNaN(y) THEN NaN
  ELSE IF IsSurd(y) \/ IsInf(y) \/ IsZero(y) THEN Unsupported
  ELSE MkSurd(QDiv(RatPart(x), y), QDiv(SurdCoef(x), y), x[5])

\* x < y ; false when either side is NaN.
Lt(x, y) ==
  IF isNaN(x) \/ isNaN(y) THEN FALSE
  ELSE IF IsSurd(x) \/ IsSurd(y) THEN Unsupported
  ELSE IF IsInf(x) /\ IsInf(y) THEN x[1] < y[1]
  ELSE x[1] * y[2] < y[1] * x[2]

\* x > y
Gt(x, y) == Lt(y, x)

\* x <= y ; false when either side is NaN.
Le(x, y) == ~isNaN(x) /\ ~isNaN(y) /\ ~Lt(y, x)

\* x >= y
Ge(x, y) == Le(y, x)

\* Math.abs
MathAbs(x) == IF IsSurd(x) THEN Unsupported ELSE <<AbsInt(x[1]), x[2]>>

\* Math.min of two arguments: NaN when either is NaN.
MathMin(x, y) ==
  IF isNaN(x) \/ isNaN(y) THEN NaN ELSE IF Lt(y, x) THEN y ELSE x

\* ------------------------------------------------------------ arrays
\* a[i] of a JavaScript array with a 0-based index: `undefined` (NaN in
\* arithmetic) when i is out of range.
At(a, i) == IF 0 <= i /\ i < Len(a) THEN a[i + 1] ELSE NaN

\* a.slice(from, to) for 0 <= from <= to.
Slice(a, from, to) ==
  LET hi == IF to < Len(a) THEN to ELSE Len(a)
  IN  IF from >= hi THEN <<>> ELSE SubSeq(a, from + 1, hi)

\* a.reduce((x, y) => x + y, 0)
RECURSIVE ReduceSum(_)
ReduceSum(a) ==
  IF a = <<>> THEN Num(0)
  ELSE Add(ReduceSum(SubSeq(a, 1, Len(a) - 1)), a[Len(a)])

\* a.filter(val => !isNaN(val))
RECURSIVE FilterDefined(_)
FilterDefined(a) ==
  IF a = <<>> THEN <<>>
  ELSE IF isNaN(Head(a)) THEN FilterDefined(Tail(a))
  ELSE <<Head(a)>> \o FilterDefined(Tail(a))

\* ------------------------------------------------------------ indicators
\* Mutant of calculateSMA: warm-up test `i < period` instead of `i < period - 1`.
calculateSMALateWarmup(data, period) ==
  [k \in 1..Len(data) |->
     IF k - 1 < period THEN NaN
     ELSE Div(ReduceSum(Slice(data, k - period, k)), Num(period))]

\* calculateSMA: loop `for (i = 0; i < data.length; i++)`, sma built by push.
RECURSIVE SMALoop(_, _, _, _)
SMALoop(data, period, i, sma) ==
  IF i >= Len(data) THEN sma
  ELSE SMALoop(data, period, i + 1,
         Append(sma,
           IF i < period - 1 THEN NaN
           ELSE Div(ReduceSum(Slice(data, i - period + 1, i + 1)), Num(period))))

calculateSMA(data, period) == SMALoop(data, period, 0, <<>>)

\* calculateEMA, first loop: `for (i = 0; i < period && i < data.length; i++)`
\* accumulates sum and pushes one NaN per iteration.
RECURSIVE EMASeedLoop(_, _, _, _)
EMASeedLoop(data, period, i, st) ==
  IF ~(i < period /\ i < Len(data)) THEN st
  ELSE EMASeedLoop(data, period, i + 1,
         [sum |-> Add(st.sum, At(data, i)), ema |-> Append(st.ema, NaN)])

\* calculateEMA, second loop: `for (i = period; i < data.length; i++)`.
RECURSIVE EMALoop(_, _, _, _)
EMALoop(data, multiplier, i, ema) ==
  IF i >= Len(data) THEN ema
  ELSE EMALoop(data, multiplier, i + 1,
         Append(ema,
           Add(Mul(Sub(At(data, i), At(ema, i - 1)), multiplier), At(ema, i - 1))))

\* Mutant of calculateEMA: multiplier 2 / period instead of 2 / (period + 1).
calculateEMAWrongMultiplier(data, period) ==
  LET multiplier == Div(Num(2), Num(period))
      seed == EMASeedLoop(data, period, 0, [sum |-> Num(0), ema |-> <<>>])
  IN  IF Len(data) >= period
        THEN EMALoop(data, multiplier, period,
                     [seed.ema EXCEPT ![period] = Div(seed.sum, Num(period))])
        ELSE seed.ema

\* Mutant of calculateEMA: the `if (data.length >= period)` test is missing, so
\* `ema[period - 1] = firstSMA` also runs on a short input and grows the array.
calculateEMAUnguarded(data, period) ==
  LET multiplier == Div(Num(2), Num(period + 1))
      seed == EMASeedLoop(data, period, 0, [sum |-> Num(0), ema |-> <<>>])
      padded == [k \in 1..period |->
                   IF k = period THEN Div(seed.sum, Num(period)) ELSE NaN]
  IN  EMALoop(data, multiplier, period, padded)

calculateEMA(data, period) ==
  LET multiplier == Div(Num(2), Num(period + 1))
      seed == EMASeedLoop(data, period, 0, [sum |-> Num(0), ema |-> <<>>])
  IN  IF Len(data) >= period
        THEN LET firstSMA == Div(seed.sum, Num(period))
             IN  EMALoop(data, multiplier, period,
                         [seed.ema EXCEPT ![period] = firstSMA])
        ELSE seed.ema

\* calculateRSI, first loop: `for (i = 1; i <= period && i < data.length; i++)`
\* accumulates the running sums gains and losses.
RECURSIVE RSISeedLoop(_, _, _, _)
RSISeedLoop(data, period, i, st) ==
  IF ~(i <= period /\ i < Len(data)) THEN st
  ELSE LET change == Sub(At(data, i), At(data, i - 1))
       IN  RSISeedLoop(data, period, i + 1,
             IF Gt(change, Num(0))
               THEN [gains |-> Add(st.gains, change), losses |-> st.losses]
               ELSE [gains |-> st.gains, losses |-> Sub(st.losses, change)])

\* Mutant of RSIValue: the ratio is inverted (avgLoss / avgGain).
RSIValueInverted(avgGain, avgLoss) ==
  LET rs == Div(avgLoss, avgGain)
  IN  Sub(Num(100), Div(Num(100), Add(Num(1), rs)))

\* The value pushed at one step: `100 - (100 / (1 + rs))`, rs = avgGain / avgLoss.
RSIValue(avgGain, avgLoss) ==
  LET rs == Div(avgGain, avgLoss)
  IN  Sub(Num(100), Div(Num(100), Add(Num(1), rs)))

\* calculateRSI, second loop: `for (i = period + 1; i < data.length; i++)`.
\* steps collects, per iteration, the smoothed averages and the value pushed.
RECURSIVE RSILoop(_, _, _, _, _, _)
RSILoop(data, period, i, avgGain, avgLoss, steps) ==
  IF i >= Len(data) THEN steps
  ELSE LET change == Sub(At(data, i), At(data, i - 1))
           gains == IF Gt(change, Num(0)) THEN change ELSE Num(0)
           losses == IF Gt(change, Num(0)) THEN Num(0) ELSE Neg(change)
           ag == Div(Add(Mul(avgGain, Num(period - 1)), gains), Num(period))
           al == Div(Add(Mul(avgLoss, Num(period - 1)), losses), Num(period))
       IN  RSILoop(data, period, i + 1, ag, al,
             Append(steps, [avgGain |-> ag, avgLoss |-> al, rsi |-> RSIValue(ag, al)]))

\* Mutant of RSISteps: the second loop starts at i = period instead of period + 1.
RSIStepsEarlyStart(data, period) ==
  LET seed == RSISeedLoop(data, period, 1, [gains |-> Num(0), losses |-> Num(0)])
  IN  RSILoop(data, period, period,
              Div(seed.gains, Num(period)), Div(seed.losses, Num(period)), <<>>)

RSISteps(data, period) ==
  LET seed == RSISeedLoop(data, period, 1, [gains |-> Num(0), losses |-> Num(0)])
  IN  RSILoop(data, period, period + 1,
              Div(seed.gains, Num(period)), Div(seed.losses, Num(period)), <<>>)

calculateRSI(data, period) ==
  LET steps == RSISteps(data, period)
  IN  <<NaN>> \o [k \in 1..Len(steps) |-> steps[k].rsi]

\* Mutant of MACDLine: the subtraction is reversed (slowEMA - fastEMA).
MACDLineReversed(data, fastEMA, slowEMA) ==
  [k \in 1..Len(data) |->
     IF isNaN(At(fastEMA, k - 1)) \/ isNaN(At(slowEMA, k - 1)) THEN NaN
     ELSE Sub(At(slowEMA, k - 1), At(fastEMA, k - 1))]

\* calculateMACD, macd line: `for (i = 0; i < data.length; i++)`.
MACDLine(data, fastEMA, slowEMA) ==
  [k \in 1..Len(data) |->
     IF isNaN(At(fastEMA, k - 1)) \/ isNaN(At(slowEMA, k - 1)) THEN NaN
     ELSE Sub(At(fastEMA, k - 1), At(slowEMA, k - 1))]

\* Mutant of HistogramLoop: the signal line is read at the macd index i, not at
\* the running signalIndex.
RECURSIVE HistogramLoopUnaligned(_, _, _, _, _)
HistogramLoopUnaligned(macd, signal, i, signalIndex, histogram) ==
  IF i >= Len(macd) THEN histogram
  ELSE IF isNaN(At(macd, i))
    THEN HistogramLoopUnaligned(macd, signal, i + 1, signalIndex, Append(histogram, NaN))
  ELSE HistogramLoopUnaligned(macd, signal, i + 1, signalIndex,
         Append(histogram, Sub(At(macd, i), At(signal, i))))

\* Mutant of HistogramLoop: `signalIndex++` is missing.
RECURSIVE HistogramLoopStuckIndex(_, _, _, _, _)
HistogramLoopStuckIndex(macd, signal, i, signalIndex, histogram) ==
  IF i >= Len(macd) THEN histogram
  ELSE IF isNaN(At(macd, i))
    THEN HistogramLoopStuckIndex(macd, signal, i + 1, signalIndex, Append(histogram, NaN))
  ELSE IF signalIndex < Len(signal)
    THEN HistogramLoopStuckIndex(macd, signal, i + 1, signalIndex,
           Append(histogram, Sub(At(macd, i), At(signal, signalIndex))))
  ELSE HistogramLoopStuckIndex(macd, signal, i + 1, signalIndex, Append(histogram, NaN))

\* calculateMACD, histogram loop with the running signalIndex.
RECURSIVE HistogramLoop(_, _, _, _, _)
HistogramLoop(macd, signal, i, signalIndex, histogram) ==
  IF i >= Len(macd) THEN histogram
  ELSE IF isNaN(At(macd, i))
    THEN HistogramLoop(macd, signal, i + 1, signalIndex, Append(histogram, NaN))
  ELSE IF signalIndex < Len(signal)
    THEN HistogramLoop(macd, signal, i + 1, signalIndex + 1,
           Append(histogram, Sub(At(macd, i), At(signal, signalIndex))))
  ELSE HistogramLoop(macd, signal, i + 1, signalIndex, Append(histogram, NaN))

\* Mutant of calculateMACD: the signal line is the EMA of the whole macd line,
\* without the `filter(val => !isNaN(val))`.
calculateMACDNoFilter(data, fastPeriod, slowPeriod, signalPeriod) ==
  LET fastEMA == calculateEMA(data, fastPeriod)
      slowEMA == calculateEMA(data, slowPeriod)
      macd == MACDLine(data, fastEMA, slowEMA)
      signal == calculateEMA(macd, signalPeriod)
  IN  [macd |-> macd, signal |-> signal,
       histogram |-> HistogramLoop(macd, signal, 0, 0, <<>>)]

\* Mutant of calculateMACD: the signal line is smoothed from the macd values
\* of all bars but the last, so it lags the macd line by one bar.
calculateMACDSignalLagging(data, fastPeriod, slowPeriod, signalPeriod) ==
  LET fastEMA == calculateEMA(data, fastPeriod)
      slowEMA == calculateEMA(data, slowPeriod)
      macd == MACDLine(data, fastEMA, slowEMA)
      signal == calculateEMA(FilterDefined(SubSeq(macd, 1, Len(macd) - 1)),
                             signalPeriod)
  IN  [macd |-> macd, signal |-> signal,
       histogram |-> HistogramLoop(macd, signal, 0, 0, <<>>)]

calculateMACD(data, fastPeriod, slowPeriod, signalPeriod) ==
  LET fastEMA == calculateEMA(data, fastPeriod)
      slowEMA == calculateEMA(data, slowPeriod)
      macd == MACDLine(data, fastEMA, slowEMA)
      signal == calculateEMA(FilterDefined(macd), signalPeriod)
  IN  [macd |-> macd, signal |-> signal,
       histogram |-> HistogramLoop(macd, signal, 0, 0, <<>>)]

\* Math.sqrt, exact: sqrt(n/d) = sqrt(n*d)/d = (s/d) * sqrt(t) where
\* n*d = s*s*t and t is square-free; rational when t = 1.
RECURSIVE ISqrtFrom(_, _)
ISqrtFrom(n, r) == IF (r + 1) * (r + 1) > n THEN r ELSE ISqrtFrom(n, r + 1)

RECURSIVE ISqrt(_)
ISqrt(n) == IF n < 4 THEN ISqrtFrom(n, 0) ELSE ISqrtFrom(n, 2 * ISqrt(n \div 4))

\* The largest k <= s with k*k dividing m (m > 0).
RECURSIVE SquareDivisorFrom(_, _)
SquareDivisorFrom(m, s) ==
  IF m % (s * s) = 0 THEN s ELSE SquareDivisorFrom(m, s - 1)

MathSqrt(x) ==
  IF IsSurd(x) THEN Unsupported
  ELSE IF isNaN(x) \/ x[1] < 0 THEN NaN
  ELSE IF IsInf(x) THEN PosInf
  ELSE IF x[1] = 0 THEN Num(0)
  ELSE LET m == x[1] * x[2]
           s == SquareDivisorFrom(m, ISqrt(m))
       IN  IF m = s * s THEN Norm(s, x[2])
           ELSE MkSurd(Num(0), Norm(s, x[2]), m \div (s * s))

\* `slice.map(value => Math.pow(value - mean, 2))`
RECURSIVE SquaredDiffs(_, _)
SquaredDiffs(slice, mean) ==
  IF slice = <<>> THEN <<>>
  ELSE <<Mul(Sub(Head(slice), mean), Sub(Head(slice), mean))>>
         \o SquaredDiffs(Tail(slice), mean)

\* Mutant of BollingerLoop: the lower band omits the stdDev multiplier.
RECURSIVE BollingerLoopLowerUnscaled(_, _, _, _, _, _)
BollingerLoopLowerUnscaled(data, period, stdDev, sma, i, b) ==
  IF i >= Len(data) THEN b
  ELSE IF i < period - 1
    THEN BollingerLoopLowerUnscaled(data, period, stdDev, sma, i + 1,
           [upper |-> Append(b.upper, NaN), middle |-> Append(b.middle, NaN),
            lower |-> Append(b.lower, NaN)])
  ELSE LET slice == Slice(data, i - period + 1, i + 1)
           mean == At(sma, i)
           avgSquaredDiff == Div(ReduceSum(SquaredDiffs(slice, mean)), Num(period))
           standardDeviation == MathSqrt(avgSquaredDiff)
       IN  BollingerLoopLowerUnscaled(data, period, stdDev, sma, i + 1,
             [upper |-> Append(b.upper, Add(mean, Mul(standardDeviation, stdDev))),
              middle |-> Append(b.middle, mean),
              lower |-> Append(b.lower, Sub(mean, standardDeviation))])

\* Mutant of BollingerLoop: sample variance, the squared differences are
\* divided by period - 1.
RECURSIVE BollingerLoopSampleVariance(_, _, _, _, _, _)
BollingerLoopSampleVariance(data, period, stdDev, sma, i, b) ==
  IF i >= Len(data) THEN b
  ELSE IF i < period - 1
    THEN BollingerLoopSampleVariance(data, period, stdDev, sma, i + 1,
           [upper |-> Append(b.upper, NaN), middle |-> Append(b.middle, NaN),
            lower |-> Append(b.lower, NaN)])
  ELSE LET slice == Slice(data, i - period + 1, i + 1)
           mean == At(sma, i)
           avgSquaredDiff ==
             Div(ReduceSum(SquaredDiffs(slice, mean)), Num(period - 1))
           standardDeviation == MathSqrt(avgSquaredDiff)
       IN  BollingerLoopSampleVariance(data, period, stdDev, sma, i + 1,
             [upper |-> Append(b.upper, Add(mean, Mul(standardDeviation, stdDev))),
              middle |-> Append(b.middle, mean),
              lower |-> Append(b.lower, Sub(mean, Mul(standardDeviation, stdDev)))])

\* calculateBollingerBands: loop `for (i = 0; i < data.length; i++)`.
RECURSIVE BollingerLoop(_, _, _, _, _, _)
BollingerLoop(data, period, stdDev, sma, i, b) ==
  IF i >= Len(data) THEN b
  ELSE IF i < period - 1
    THEN BollingerLoop(data, period, stdDev, sma, i + 1,
           [upper |-> Append(b.upper, NaN), middle |-> Append(b.middle, NaN),
            lower |-> Append(b.lower, NaN)])
  ELSE LET slice == Slice(data, i - period + 1, i + 1)
           mean == At(sma, i)
           avgSquaredDiff == Div(ReduceSum(SquaredDiffs(slice, mean)), Num(period))
           standardDeviation == MathSqrt(avgSquaredDiff)
       IN  BollingerLoop(data, period, stdDev, sma, i + 1,
             [upper |-> Append(b.upper, Add(mean, Mul(standardDeviation, stdDev))),
              middle |-> Append(b.middle, mean),
              lower |-> Append(b.lower, Sub(mean, Mul(standardDeviation, stdDev)))])

calculateBollingerBands(data, period, stdDev) ==
  BollingerLoop(data, period, stdDev, calculateSMA(data, period), 0,
                [upper |-> <<>>, middle |-> <<>>, lower |-> <<>>])

\* Math.max of three arguments.
MathMax3(x, y, z) ==
  IF isNaN(x) \/ isNaN(y) \/ isNaN(z) THEN NaN
  ELSE LET m == IF Lt(x, y) THEN y ELSE x
       IN  IF Lt(m, z) THEN z ELSE m

\* Mutant of TrueRange: the candle's own close is used instead of the
\* previous candle's close.
TrueRangeOwnClose(candles) ==
  [k \in 1..Len(candles) |->
     IF k = 1 THEN Sub(candles[k].high, candles[k].low)
     ELSE MathMax3(Sub(candles[k].high, candles[k].low),
                   MathAbs(Sub(candles[k].high, candles[k].close)),
                   MathAbs(Sub(candles[k].low, candles[k].close)))]

\* calculateATR, true-range loop.
TrueRange(candles) ==
  [k \in 1..Len(candles) |->
     IF k = 1 THEN Sub(candles[k].high, candles[k].low)
     ELSE MathMax3(Sub(candles[k].high, candles[k].low),
                   MathAbs(Sub(candles[k].high, candles[k - 1].close)),
                   MathAbs(Sub(candles[k].low, candles[k - 1].close)))]

calculateATR(candles, period) == calculateEMA(TrueRange(candles), period)

\* ------------------------------------------------------------ signal analyzer
Insufficient ==
  [type |-> "neutral", strength |-> Num(0), description |-> "Insufficient data"]

NoSignal ==
  [type |-> "neutral", strength |-> Num(0), description |-> "No clear MACD signal"]

\* `Math.min(Math.abs(currentHistogram) * 10, 100)`
Strength(currentHistogram) ==
  MathMin(Mul(MathAbs(currentHistogram), Num(10)), Num(100))

\* Mutant of analyzeMACDSignal: the sufficiency guard tests `< 2` instead of `< 3`.
analyzeMACDSignalShortGuard(macdLine, signalLine, histogram) ==
  IF Len(macdLine) < 2 \/ Len(signalLine) < 2 THEN Insufficient
  ELSE
    LET currentMACD == At(macdLine, Len(macdLine) - 1)
        currentSignal == At(signalLine, Len(signalLine) - 1)
        currentHistogram == At(histogram, Len(histogram) - 1)
        previousMACD == At(macdLine, Len(macdLine) - 2)
        previousSignal == At(signalLine, Len(signalLine) - 2)
    IN  IF Le(previousMACD, previousSignal) /\ Gt(currentMACD, currentSignal)
          THEN [type |-> "bullish", strength |-> Strength(currentHistogram),
                description |-> "MACD bullish crossover"]
        ELSE IF Ge(previousMACD, previousSignal) /\ Lt(currentMACD, currentSignal)
          THEN [type |-> "bearish", strength |-> Strength(currentHistogram),
                description |-> "MACD bearish crossover"]
        ELSE NoSignal

\* Mutant of analyzeMACDSignal: the sufficiency guard joins its tests with `&&`.
analyzeMACDSignalAndGuard(macdLine, signalLine, histogram) ==
  IF Len(macdLine) < 3 /\ Len(signalLine) < 3 THEN Insufficient
  ELSE
    LET currentMACD == At(macdLine, Len(macdLine) - 1)
        currentSignal == At(signalLine, Len(signalLine) - 1)
        currentHistogram == At(histogram, Len(histogram) - 1)
        previousMACD == At(macdLine, Len(macdLine) - 2)
        previousSignal == At(signalLine, Len(signalLine) - 2)
    IN  IF Le(previousMACD, previousSignal) /\ Gt(currentMACD, currentSignal)
          THEN [type |-> "bullish", strength |-> Strength(currentHistogram),
                description |-> "MACD bullish crossover"]
        ELSE IF Ge(previousMACD, previousSignal) /\ Lt(currentMACD, currentSignal)
          THEN [type |-> "bearish", strength |-> Strength(currentHistogram),
                description |-> "MACD bearish crossover"]
        ELSE NoSignal

\* Mutant of analyzeMACDSignal: the previous points are compared with `<` and `>`
\* instead of `<=` and `>=`.
analyzeMACDSignalStrictPrevious(macdLine, signalLine, histogram) ==
  IF Len(macdLine) < 3 \/ Len(signalLine) < 3 THEN Insufficient
  ELSE
    LET currentMACD == At(macdLine, Len(macdLine) - 1)
        currentSignal == At(signalLine, Len(signalLine) - 1)
        currentHistogram == At(histogram, Len(histogram) - 1)
        previousMACD == At(macdLine, Len(macdLine) - 2)
        previousSignal == At(signalLine, Len(signalLine) - 2)
    IN  IF Lt(previousMACD, previousSignal) /\ Gt(currentMACD, currentSignal)
          THEN [type |-> "bullish", strength |-> Strength(currentHistogram),
                description |-> "MACD bullish crossover"]
        ELSE IF Gt(previousMACD, previousSignal) /\ Lt(currentMACD, currentSignal)
          THEN [type |-> "bearish", strength |-> Strength(currentHistogram),
                description |-> "MACD bearish crossover"]
        ELSE NoSignal

\* Mutant of analyzeMACDSignal: the previous points are tested with `!(a > b)` and
\* `!(a < b)`, which are true when a signal value is NaN.
analyzeMACDSignalNegatedPrevious(macdLine, signalLine, histogram) ==
  IF Len(macdLine) < 3 \/ Len(signalLine) < 3 THEN Insufficient
  ELSE
    LET currentMACD == At(macdLine, Len(macdLine) - 1)
        currentSignal == At(signalLine, Len(signalLine) - 1)
        currentHistogram == At(histogram, Len(histogram) - 1)
        previousMACD == At(macdLine, Len(macdLine) - 2)
        previousSignal == At(signalLine, Len(signalLine) - 2)
    IN  IF ~Gt(previousMACD, previousSignal) /\ Gt(currentMACD, currentSignal)
          THEN [type |-> "bullish", strength |-> Strength(currentHistogram),
                description |-> "MACD bullish crossover"]
        ELSE IF ~Lt(previousMACD, previousSignal) /\ Lt(currentMACD, currentSignal)
          THEN [type |-> "bearish", strength |-> Strength(currentHistogram),
                description |-> "MACD bearish crossover"]
        ELSE NoSignal

analyzeMACDSignal(macdLine, signalLine, histogram) ==
  IF Len(macdLine) < 3 \/ Len(signalLine) < 3 THEN Insufficient
  ELSE
    LET currentMACD == At(macdLine, Len(macdLine) - 1)
        currentSignal == At(signalLine, Len(signalLine) - 1)
        currentHistogram == At(histogram, Len(histogram) - 1)
        previousMACD == At(macdLine, Len(macdLine) - 2)
        previousSignal == At(signalLine, Len(signalLine) - 2)
    IN  IF Le(previousMACD, previousSignal) /\ Gt(currentMACD, currentSignal)
          THEN [type |-> "bullish", strength |-> Strength(currentHistogram),
                description |-> "MACD bullish crossover"]
        ELSE IF Ge(previousMACD, previousSignal) /\ Lt(currentMACD, currentSignal)
          THEN [type |-> "bearish", strength |-> Strength(currentHistogram),
                description |-> "MACD bearish crossover"]
        ELSE NoSignal

\* ------------------------------------------------------ arithmetic helpers
MathFloor(x) ==
  IF IsSurd(x) THEN Unsupported
  ELSE IF isNaN(x) \/ IsInf(x) THEN x
  ELSE Num(x[1] \div x[2])

\* `throw new Error(msg)`: the call returns no value.
Threw(msg) == [threw |-> TRUE, message |-> msg, value |-> NaN]

\* `return v`.
Returned(v) == [threw |-> FALSE, message |-> "", value |-> v]

calculatePositionSize(accountBalance, riskPercentage, entryPrice, stopLoss) ==
  IF Le(entryPrice, Num(0)) \/ Le(stopLoss, Num(0))
    THEN Threw("Entry price and stop loss must be positive")
  ELSE IF Le(riskPercentage, Num(0)) \/ Gt(riskPercentage, Num(100))
    THEN Threw("Risk percentage must be between 0 and 100")
  ELSE
    LET riskAmount == Mul(accountBalance, Div(riskPercentage, Num(100)))
        riskPerShare == MathAbs(Sub(entryPrice, stopLoss))
    IN  Returned(MathFloor(Div(riskAmount, riskPerShare)))

calculateProfitLossPercentage(entryPrice, exitPrice, tradeType) ==
  IF Le(entryPrice, Num(0)) \/ Le(exitPrice, Num(0))
    THEN Threw("Prices must be positive")
  ELSE
    LET profitLoss == Sub(exitPrice, entryPrice)
        profitLossPercentage == Mul(Div(profitLoss, entryPrice), Num(100))
    IN  IF tradeType = "SHORT" THEN Returned(Neg(profitLossPercentage))
        ELSE Returned(profitLossPercentage)

calculateRiskRewardRatio(entryPrice, stopLoss, takeProfit) ==
  IF Le(entryPrice, Num(0)) \/ Le(stopLoss, Num(0)) \/ Le(takeProfit, Num(0))
    THEN Threw("All prices must be positive")
  ELSE
    LET risk == MathAbs(Sub(entryPrice, stopLoss))
        reward == MathAbs(Sub(takeProfit, entryPrice))
    IN  IF IsZero(risk) THEN Threw("Risk cannot be zero")
        ELSE Returned(Div(reward, risk))

NoReply == [status |-> 0, error |-> ""]

\* ---------------------------------------------------------- AuthMiddleware
\* An Authorization header value is a sequence of items, each a run of white
\* space " " or a word; the empty sequence is the absent (empty) header.

\* strings.Fields: the words, white space dropped.
StringsFields(h) == SelectSeq(h, LAMBDA x : x # " ")

StringsToLower(w) ==
  CASE w = "Bearer" -> "bearer"
    [] w = "BEARER" -> "bearer"
    [] w = "Basic" -> "basic"
    [] OTHER -> w

\* tokenMaker.VerifyToken(token): a payload, or an error.  e.users gives the
\* user id of every token the injected TokenMaker accepts, -1 for the others.
VerifyToken(e, token) ==
  IF token \in DOMAIN e.users /\ e.users[token] >= 0
    THEN [err |-> FALSE, UserID |-> e.users[token]]
    ELSE [err |-> TRUE, UserID |-> 0]

\* One entry of the log of calls made on the dependencies.
Call(fn, token, userID, ok) ==
  [fn |-> fn, token |-> token, userID |-> userID, ok |-> ok]

\* w.WriteHeader(http.StatusUnauthorized) and the JSON error body.
Unauthorized(msg) == [status |-> 401, error |-> msg]

\* Lines 72-84: the last_seen update is started in a goroutine when there is a
\* database and a positive user id, then the next handler is invoked.
AuthProceed(e, log, userID) ==
  LET started == IF e.db /\ userID > 0
                   THEN <<Call("go db.Exec", "", userID, TRUE)>>
                   ELSE <<>>
  IN  [calls |-> log \o started \o <<Call("next.ServeHTTP", "", userID, TRUE)>>,
       reply |-> NoReply]

\* Lines 51-70: the auth_token cookie.
AuthCookie(r, e, log) ==
  IF ~r.cookie.present \/ r.cookie.value = ""
    THEN [calls |-> log, reply |-> Unauthorized("Authentication required")]
  ELSE
    LET v == VerifyToken(e, r.cookie.value)
        log2 == log \o <<Call("VerifyToken", r.cookie.value, v.UserID, ~v.err)>>
    IN  IF v.err
          THEN [calls |-> log2, reply |-> Unauthorized("Invalid or expired token")]
        ELSE AuthProceed(e, log2, v.UserID)

\* Mutant of AuthMiddleware: a Bearer token that fails verification falls
\* through to the cookie instead of being rejected.
AuthMiddlewareCookieAfterInvalidBearer(r, e) ==
  LET parts == StringsFields(r.authHeader)
  IN  IF r.authHeader # <<>> /\ Len(parts) = 2
           /\ StringsToLower(parts[1]) = "bearer"
        THEN
          LET v == VerifyToken(e, parts[2])
              log == <<Call("VerifyToken", parts[2], v.UserID, ~v.err)>>
          IN  IF v.err THEN AuthCookie(r, e, log)
              ELSE AuthProceed(e, log, v.UserID)
      ELSE AuthCookie(r, e, <<>>)

AuthMiddleware(r, e) ==
  LET parts == StringsFields(r.authHeader)
  IN  IF r.authHeader # <<>> /\ Len(parts) = 2
           /\ StringsToLower(parts[1]) = "bearer"
        THEN
          LET v == VerifyToken(e, parts[2])
              log == <<Call("VerifyToken", parts[2], v.UserID, ~v.err)>>
          IN  IF v.err
                THEN [calls |-> log,
                      reply |-> Unauthorized("Invalid or expired token")]
              ELSE AuthProceed(e, log, v.UserID)
      ELSE AuthCookie(r, e, <<>>)

\* ----------------------------------------------------- NotificationService
\* A title or a message is modelled by its length in bytes, the only thing
\* Validate reads of it; CreatedAt is left out, nothing reads it.
MaxTitleLen == 100

MaxMessageLen == 500

validTypes == {"info", "success", "warning", "error"}

\* CreateNotificationInput.Validate: the error message, "" for nil.
Validate(in) ==
  IF in.UserID <= 0 THEN "user_id is required and must be positive"
  ELSE IF in.TitleLen = 0 THEN "title is required"
  ELSE IF in.TitleLen > MaxTitleLen THEN "title must be 100 characters or less"
  ELSE IF in.MessageLen = 0 THEN "message is required"
  ELSE IF in.MessageLen > MaxMessageLen
    THEN "message must be 500 characters or less"
  ELSE IF in.Type \notin validTypes
    THEN "type must be one of: info, success, warning, error"
  ELSE ""

\* fmt.Errorf(msg + ": %w", cause); nil is the pair of empty strings.
Errorf(msg, cause) == [error |-> msg, cause |-> cause]

Nil == Errorf("", "")

\* Lines 99-106.
NewNotification(in) ==
  [UserID |-> in.UserID, TitleLen |-> in.TitleLen,
   MessageLen |-> in.MessageLen, Type |-> in.Type, IsRead |-> FALSE]

\* s.repo.Save(ctx, n), which succeeds or fails as the repository decides.
SaveCall(e, n) ==
  [fn |-> "repo.Save", token |-> "", userID |-> n.UserID, ok |-> e.saveOK,
   notification |-> n]

\* Lines 114-119: the hub is "nil", or its SendToUser succeeds ("ok") or
\* fails ("fail"); a failure is only logged.
PushToHub(in, e) ==
  IF e.hub # "nil"
    THEN <<Call("hub.SendToUser", "", in.UserID, e.hub = "ok")>>
    ELSE <<>>

\* Mutant of CreateAndPush: the notification is pushed to the hub before it
\* is saved.
CreateAndPushSendBeforeSave(in, e) ==
  LET verr == Validate(in)
      validated == <<Call("in.Validate", "", in.UserID, verr = "")>>
  IN  IF verr # ""
        THEN [calls |-> validated,
              reply |-> Errorf("validation failed", verr)]
      ELSE
        LET n == NewNotification(in)
            pushed == validated \o PushToHub(in, e)
            saved == pushed \o <<SaveCall(e, n)>>
        IN  IF ~e.saveOK
              THEN [calls |-> saved,
                    reply |-> Errorf("failed to save notification", "save")]
            ELSE [calls |-> saved, reply |-> Nil]

CreateAndPush(in, e) ==
  LET verr == Validate(in)
      validated == <<Call("in.Validate", "", in.UserID, verr = "")>>
  IN  IF verr # ""
        THEN [calls |-> validated,
              reply |-> Errorf("validation failed", verr)]
      ELSE
        LET n == NewNotification(in)
            saved == validated \o <<SaveCall(e, n)>>
        IN  IF ~e.saveOK
              THEN [calls |-> saved,
                    reply |-> Errorf("failed to save notification", "save")]
            ELSE [calls |-> saved \o PushToHub(in, e), reply |-> Nil]

MinInt2(i, j) == IF i < j THEN i ELSE j

\* repo.List(ctx, userID, page, limit) of a paginating repository: the rows of
\* the user on the given page of at most `limit` rows, and the user's total.
RepoList(e, userID, page, limit) ==
  LET mine == SelectSeq(e.rows, LAMBDA n : n.UserID = userID)
  IN  IF ~e.listOK THEN [err |-> TRUE, notifications |-> <<>>, total |-> 0]
      ELSE [err |-> FALSE,
            notifications |->
              SubSeq(mine, (page - 1) * limit + 1,
                     MinInt2(page * limit, Len(mine))),
            total |-> Len(mine)]

\* Lines 179-184: the loop counting the rows with IsRead false.
RECURSIVE CountUnread(_)
CountUnread(notifications) ==
  IF notifications = <<>> THEN 0
  ELSE (IF ~Head(notifications).IsRead THEN 1 ELSE 0)
         + CountUnread(Tail(notifications))

GetUnreadCount(e, userID) ==
  LET l == RepoList(e, userID, 1, 1)
      listed == <<Call("repo.List", "", userID, ~l.err)>>
  IN  IF l.err
        THEN [calls |-> listed,
              reply |-> [count |-> 0, error |-> "failed to get notifications",
                         cause |-> "list"]]
      ELSE [calls |-> listed,
            reply |-> [count |-> CountUnread(l.notifications), error |-> "",
                       cause |-> ""]]

\* ------------------------------------------------------------ state machine
VARIABLES
  pc,            \* "ready": inputs chosen, nothing called yet; "done": returned
  op,            \* the function that was called
  data,          \* the input price series
  candles,       \* the input candle series (calculateATR)
  period,        \* period argument of SMA / EMA / RSI / Bollinger / ATR
  fastPeriod, slowPeriod, signalPeriod,   \* arguments of calculateMACD
  stdDev,        \* width multiplier of calculateBollingerBands
  result,        \* the series returned by SMA / EMA / RSI / ATR
  bands,         \* the {upper, middle, lower} returned by calculateBollingerBands
  macdLine, signalLine, histogram,  \* returned by calculateMACD, read by the analyzer
  sig,           \* the MACDSignal returned by analyzeMACDSignal
  passed,        \* the array objects the last call received as arguments
  returned,      \* the array objects the last call returned
  hargs,         \* the arguments of the last arithmetic-helper call
  outcome,       \* what the last arithmetic-helper call did: threw or returned
  req,           \* the request or input handed to the last backend operation
  env,           \* the behaviour of the dependencies injected into it
  calls,         \* the calls it made on its dependencies, in order
  reply          \* what it answered or returned

vars == <<pc, op, data, candles, period, fastPeriod, slowPeriod, signalPeriod,
          stdDev, result, bands, macdLine, signalLine, histogram, sig,
          passed, returned, hargs, outcome, req, env, calls, reply>>

helperVars == <<hargs, outcome>>

serviceVars == <<req, env, calls, reply>>

indicatorVars == <<data, candles, period, fastPeriod, slowPeriod, signalPeriod,
                   stdDev, result, bands, macdLine, signalLine, histogram, sig,
                   passed, returned>>

SeqsUpTo(S, n) == UNION {[1..k -> S] : k \in 0..n}

Prices == {Num(1), Num(2), Num(3), Num(5)}

CandlePrices == {Num(1), Num(2), Num(4)}

\* A candle's close lies between its low and its high.
Candles ==
  {c \in [high : CandlePrices, low : CandlePrices, close : CandlePrices] :
     Le(c.low, c.close) /\ Le(c.close, c.high)}

Periods == 1..MaxPeriod

NoBands == [upper |-> <<>>, middle |-> <<>>, lower |-> <<>>]

NoSig == [type |-> "none", strength |-> NaN, description |-> ""]

NoArgs ==
  [accountBalance |-> NaN, riskPercentage |-> NaN, entryPrice |-> NaN,
   stopLoss |-> NaN, exitPrice |-> NaN, takeProfit |-> NaN, tradeType |-> ""]

NoOutcome == [threw |-> FALSE, message |-> "", value |-> NaN]


\* No backend operation is involved.
NoService == req = [kind |-> "none"] /\ env = [kind |-> "none"]

Blank ==
  /\ pc = "ready" /\ op = "none"
  /\ period = 0 /\ fastPeriod = 0 /\ slowPeriod = 0 /\ signalPeriod = 0
  /\ stdDev = Num(0)
  /\ result = <<>> /\ bands = NoBands /\ sig = NoSig
  /\ passed = {} /\ returned = {}
  /\ hargs = NoArgs /\ outcome = NoOutcome
  /\ calls = <<>> /\ reply = NoReply

\* A price history or a candle history has been supplied; nothing computed.
Init ==
  /\ Blank /\ NoService
  /\ macdLine = <<>> /\ signalLine = <<>> /\ histogram = <<>>
  /\ \/ data \in SeqsUpTo(Prices, MaxLen) /\ candles = <<>>
     \/ data = <<>> /\ candles \in SeqsUpTo(Candles, MaxCandles)

CallSMA ==
  /\ pc = "ready" /\ candles = <<>>
  /\ \E p \in Periods :
       /\ period' = p
       /\ result' = calculateSMA(data, p)
  /\ pc' = "done" /\ op' = "sma"
  /\ UNCHANGED <<data, candles, fastPeriod, slowPeriod, signalPeriod, stdDev,
                 bands, macdLine, signalLine, histogram, sig>>
  /\ passed' = {"arg.data"}
  /\ returned' = {"calculateSMA.sma"}
  /\ UNCHANGED <<helperVars, serviceVars>>

\* Mutant of CallEMA: the averages are written into the caller's array, which
\* is also what the call returns.
CallEMAInPlace ==
  /\ pc = "ready" /\ candles = <<>>
  /\ \E p \in Periods :
       /\ period' = p
       /\ result' = calculateEMA(data, p)
  /\ data' = result'
  /\ pc' = "done" /\ op' = "ema"
  /\ UNCHANGED <<candles, fastPeriod, slowPeriod, signalPeriod, stdDev,
                 bands, macdLine, signalLine, histogram, sig>>
  /\ passed' = {"arg.data"}
  /\ returned' = {"arg.data"}
  /\ UNCHANGED <<helperVars, serviceVars>>

CallEMA ==
  /\ pc = "ready" /\ candles = <<>>
  /\ \E p \in Periods :
       /\ period' = p
       /\ result' = calculateEMA(data, p)
  /\ pc' = "done" /\ op' = "ema"
  /\ UNCHANGED <<data, candles, fastPeriod, slowPeriod, signalPeriod, stdDev,
                 bands, macdLine, signalLine, histogram, sig>>
  /\ passed' = {"arg.data"}
  /\ returned' = {"calculateEMA.ema"}
  /\ UNCHANGED <<helperVars, serviceVars>>

CallRSI ==
  /\ pc = "ready" /\ candles = <<>>
  /\ \E p \in Periods :
       /\ period' = p
       /\ result' = calculateRSI(data, p)
  /\ pc' = "done" /\ op' = "rsi"
  /\ UNCHANGED <<data, candles, fastPeriod, slowPeriod, signalPeriod, stdDev,
                 bands, macdLine, signalLine, histogram, sig>>
  /\ passed' = {"arg.data"}
  /\ returned' = {"calculateRSI.rsi"}
  /\ UNCHANGED <<helperVars, serviceVars>>

CallBollinger ==
  /\ pc = "ready" /\ candles = <<>>
  /\ \E p \in Periods, m \in 1..MaxMult :
       /\ period' = p
       /\ stdDev' = Num(m)
       /\ bands' = calculateBollingerBands(data, p, Num(m))
  /\ pc' = "done" /\ op' = "bollinger"
  /\ UNCHANGED <<data, candles, fastPeriod, slowPeriod, signalPeriod, result,
                 macdLine, signalLine, histogram, sig>>
  /\ passed' = {"arg.data"}
  /\ returned' = {"calculateBollingerBands.upper", "calculateBollingerBands.middle",
                  "calculateBollingerBands.lower"}
  /\ UNCHANGED <<helperVars, serviceVars>>

CallMACD ==
  /\ pc = "ready" /\ candles = <<>>
  /\ \E f \in Periods, s \in Periods, g \in Periods :
       LET r == calculateMACD(data, f, s, g)
       IN  /\ fastPeriod' = f /\ slowPeriod' = s /\ signalPeriod' = g
           /\ macdLine' = r.macd
           /\ signalLine' = r.signal
           /\ histogram' = r.histogram
  /\ pc' = "done" /\ op' = "macd"
  /\ UNCHANGED <<data, candles, period, stdDev, result, bands, sig>>
  /\ passed' = {"arg.data"}
  /\ returned' = {"calculateMACD.macd", "calculateEMA.ema", "calculateMACD.histogram"}
  /\ UNCHANGED <<helperVars, serviceVars>>

CallATR ==
  /\ pc = "ready" /\ data = <<>>
  /\ \E p \in Periods :
       /\ period' = p
       /\ result' = calculateATR(candles, p)
  /\ pc' = "done" /\ op' = "atr"
  /\ UNCHANGED <<data, candles, fastPeriod, slowPeriod, signalPeriod, stdDev,
                 bands, macdLine, signalLine, histogram, sig>>
  /\ passed' = {"arg.data"}
  /\ returned' = {"calculateEMA.ema"}
  /\ UNCHANGED <<helperVars, serviceVars>>

\* The pipeline: the three series calculateMACD returned are handed to
\* analyzeMACDSignal.
CallAnalyzeOnMACD ==
  /\ pc = "done" /\ op = "macd"
  /\ sig' = analyzeMACDSignal(macdLine, signalLine, histogram)
  /\ passed' = returned
  /\ returned' = {}
  /\ pc' = "done" /\ op' = "pipeline"
  /\ UNCHANGED <<data, candles, period, fastPeriod, slowPeriod, signalPeriod,
                 stdDev, result, bands, macdLine, signalLine, histogram>>
  /\ UNCHANGED <<helperVars, serviceVars>>

Next ==
  \/ CallSMA \/ CallEMA \/ CallRSI \/ CallBollinger \/ CallMACD \/ CallATR
  \/ CallAnalyzeOnMACD

Spec == Init /\ [][Next]_vars

\* ---- analyzeMACDSignal called directly on arbitrary lines
MacdValues == {Num(-1), Num(1), NaN}

SignalValues == {Num(0), Num(1), NaN}

HistValues == {Num(5), Num(-20), NaN}

InitSignal ==
  /\ Blank /\ NoService
  /\ data = <<>> /\ candles = <<>>
  /\ macdLine \in SeqsUpTo(MacdValues, MaxLineLen)
  /\ signalLine \in SeqsUpTo(SignalValues, MaxLineLen)
  /\ histogram \in SeqsUpTo(HistValues, MaxHistLen)

CallAnalyze ==
  /\ pc = "ready"
  /\ sig' = analyzeMACDSignal(macdLine, signalLine, histogram)
  /\ pc' = "done" /\ op' = "analyze"
  /\ UNCHANGED <<data, candles, period, fastPeriod, slowPeriod, signalPeriod,
                 stdDev, result, bands, macdLine, signalLine, histogram>>
  /\ passed' = {"arg.macdLine", "arg.signalLine", "arg.histogram"}
  /\ returned' = {}
  /\ UNCHANGED <<helperVars, serviceVars>>

NextSignal == CallAnalyze

SpecSignal == InitSignal /\ [][NextSignal]_vars

\* ---- the arithmetic helpers called on arbitrary numbers
HelperPrices == {Num(-1), Num(0), Num(1), Num(2)}

RiskPercentages == {Num(0), Num(1), Num(100), Num(101)}

Balances == {Num(0), Num(1000)}

TradeTypes == {"LONG", "SHORT"}

InitHelpers ==
  /\ Blank /\ NoService
  /\ data = <<>> /\ candles = <<>>
  /\ macdLine = <<>> /\ signalLine = <<>> /\ histogram = <<>>

CallPositionSize ==
  /\ pc = "ready"
  /\ \E b \in Balances, r \in RiskPercentages, e \in HelperPrices, s \in HelperPrices :
       /\ hargs' = [NoArgs EXCEPT !.accountBalance = b, !.riskPercentage = r,
                                  !.entryPrice = e, !.stopLoss = s]
       /\ outcome' = calculatePositionSize(b, r, e, s)
  /\ pc' = "done" /\ op' = "positionSize"
  /\ UNCHANGED <<indicatorVars, serviceVars>>

CallProfitLossPercentage ==
  /\ pc = "ready"
  /\ \E e \in HelperPrices, x \in HelperPrices, t \in TradeTypes :
       /\ hargs' = [NoArgs EXCEPT !.entryPrice = e, !.exitPrice = x, !.tradeType = t]
       /\ outcome' = calculateProfitLossPercentage(e, x, t)
  /\ pc' = "done" /\ op' = "profitLoss"
  /\ UNCHANGED <<indicatorVars, serviceVars>>

CallRiskRewardRatio ==
  /\ pc = "ready"
  /\ \E e \in HelperPrices, s \in HelperPrices, t \in HelperPrices :
       /\ hargs' = [NoArgs EXCEPT !.entryPrice = e, !.stopLoss = s, !.takeProfit = t]
       /\ outcome' = calculateRiskRewardRatio(e, s, t)
  /\ pc' = "done" /\ op' = "riskReward"
  /\ UNCHANGED <<indicatorVars, serviceVars>>

NextHelpers == CallPositionSize \/ CallProfitLossPercentage \/ CallRiskRewardRatio

SpecHelpers == InitHelpers /\ [][NextHelpers]_vars

\* ---- AuthMiddleware serving one request
Tokens == {"t1", "t2"}

Words == {"Bearer", "BEARER", "bearer", "Basic"} \cup Tokens

\* Header values: two words are always separated by white space.
Headers ==
  {h \in SeqsUpTo(Words \cup {" "}, MaxHeaderItems) :
     \A i \in 1..(Len(h) - 1) : h[i] = " " \/ h[i + 1] = " "}

Cookies ==
  {[present |-> FALSE, value |-> ""]}
    \cup {[present |-> TRUE, value |-> v] : v \in {""} \cup Tokens}

\* Injected dependencies: what the TokenMaker answers for each token (-1: an
\* error) and whether a database handle was given.
AuthEnvs == [kind : {"auth"}, users : [Tokens -> {-1, 0, 7}], db : BOOLEAN]

InitAuth ==
  /\ Blank
  /\ data = <<>> /\ candles = <<>>
  /\ macdLine = <<>> /\ signalLine = <<>> /\ histogram = <<>>
  /\ req \in [kind : {"http"}, authHeader : Headers, cookie : Cookies]
  /\ env \in AuthEnvs

ServeAuth ==
  /\ pc = "ready"
  /\ LET r == AuthMiddleware(req, env)
     IN  calls' = r.calls /\ reply' = r.reply
  /\ pc' = "done" /\ op' = "auth"
  /\ UNCHANGED <<indicatorVars, helperVars, req, env>>

\* The goroutine started at line 74 runs db.Exec, which succeeds or fails;
\* a failure is only logged.
RunLastSeenUpdate ==
  /\ pc = "done" /\ op = "auth"
  /\ \E i \in 1..Len(calls) : calls[i].fn = "go db.Exec"
  /\ \A i \in 1..Len(calls) : calls[i].fn # "db.Exec"
  /\ \E ok \in BOOLEAN :
       calls' = calls \o <<Call("db.Exec", "", calls[Len(calls)].userID, ok)>>
  /\ UNCHANGED <<indicatorVars, helperVars, pc, op, req, env, reply>>

NextAuth == ServeAuth \/ RunLastSeenUpdate

SpecAuth == InitAuth /\ [][NextAuth]_vars

\* ---- NotificationService
UserIDs == {-1, 0, 1}

TitleLens == {0, 1, MaxTitleLen, MaxTitleLen + 1}

MessageLens == {0, 1, MaxMessageLen, MaxMessageLen + 1}

Types == validTypes \cup {"", "INFO"}

CreateInputs ==
  [kind : {"create"}, UserID : UserIDs, TitleLen : TitleLens,
   MessageLen : MessageLens, Type : Types]

Hubs == {"nil", "ok", "fail"}

\* The notifications a repository may hold, of two users.
Rows ==
  [UserID : {1, 2}, TitleLen : {1}, MessageLen : {1}, Type : {"info"},
   IsRead : BOOLEAN]

\* Either an input for CreateAndPush with a repository and a hub that accept
\* or refuse, or a user id for GetUnreadCount with a repository holding rows.
InitNotify ==
  /\ Blank
  /\ data = <<>> /\ candles = <<>>
  /\ macdLine = <<>> /\ signalLine = <<>> /\ histogram = <<>>
  /\ \/ /\ req \in CreateInputs
        /\ env \in [kind : {"notify"}, rows : {<<>>}, saveOK : BOOLEAN,
                    listOK : {TRUE}, hub : Hubs]
     \/ /\ req \in [kind : {"unread"}, userID : {1, 2}]
        /\ env \in [kind : {"notify"}, rows : SeqsUpTo(Rows, MaxRows),
                    saveOK : {TRUE}, listOK : BOOLEAN, hub : {"nil"}]

CallCreateAndPush ==
  /\ pc = "ready" /\ req.kind = "create"
  /\ LET r == CreateAndPush(req, env)
     IN  calls' = r.calls /\ reply' = r.reply
  /\ pc' = "done" /\ op' = "createAndPush"
  /\ UNCHANGED <<indicatorVars, helperVars, req, env>>

CallGetUnreadCount ==
  /\ pc = "ready" /\ req.kind = "unread"
  /\ LET r == GetUnreadCount(env, req.userID)
     IN  calls' = r.calls /\ reply' = r.reply
  /\ pc' = "done" /\ op' = "getUnreadCount"
  /\ UNCHANGED <<indicatorVars, helperVars, req, env>>

NextNotify == CallCreateAndPush \/ CallGetUnreadCount

SpecNotify == InitNotify /\ [][NextNotify]_vars

\* ------------------------------------------------------------ properties
Max0(i) == IF i < 0 THEN 0 ELSE i

MaxInt(i, j) == IF i < j THEN j ELSE i

Last(a) == a[Len(a)]

\* Number of defined (non-NaN) entries among the first i entries of a.
DefinedUpTo(a, i) == Len(FilterDefined(SubSeq(a, 1, i)))

StrictlyIncreasing(a) == \A k \in 1..(Len(a) - 1) : Lt(a[k], a[k + 1])

StrictlyDecreasing(a) == \A k \in 1..(Len(a) - 1) : Gt(a[k], a[k + 1])

\* Reference sum of a[lo..hi] (0-based, inclusive), added from the right.
RECURSIVE WindowSum(_, _, _)
WindowSum(a, lo, hi) ==
  IF lo > hi THEN Num(0) ELSE Add(a[lo + 1], WindowSum(a, lo + 1, hi))

\* C1 as stated: in the result of calculateMACD, histogram[i] is NaN if and
\* only if macd[i] is NaN, for every index i.
C1_HistogramNaNIffMacdNaN ==
  (pc = "done" /\ op = "macd") =>
    /\ Len(histogram) = Len(macdLine)
    /\ \A i \in 1..Len(macdLine) : isNaN(histogram[i]) <=> isNaN(macdLine[i])

\* C1 amended: histogram[i] is NaN wherever macd[i] is NaN, and where macd[i]
\* is defined histogram[i] is NaN exactly while fewer than signalPeriod defined
\* macd values have occurred up to and including i (the signal line's warm-up).
C1_HistogramNaNIffMacdNaNOrSignalWarmup ==
  (pc = "done" /\ op = "macd") =>
    /\ Len(histogram) = Len(macdLine)
    /\ \A i \in 1..Len(macdLine) :
         isNaN(histogram[i]) <=>
           (isNaN(macdLine[i]) \/ DefinedUpTo(macdLine, i) < signalPeriod)

\* A MACD result in which a defined macd value has an undefined histogram value
\* (signal warm-up) and a later one has a defined histogram value.
C1_Witness ==
  /\ pc = "done" /\ op = "macd" /\ signalPeriod > 1
  /\ \E i, j \in 1..Len(macdLine) :
       /\ i < j
       /\ ~isNaN(macdLine[i]) /\ isNaN(histogram[i])
       /\ ~isNaN(macdLine[j]) /\ ~isNaN(histogram[j])

\* C2 as stated: every series returned by an indicator function has exactly
\* the length of the input series it was computed from.
C2_EverySeriesHasInputLength ==
  pc = "done" =>
    /\ op \in {"sma", "ema", "rsi"} => Len(result) = Len(data)
    /\ op = "atr" => Len(result) = Len(candles)
    /\ op = "bollinger" =>
         /\ Len(bands.upper) = Len(data)
         /\ Len(bands.middle) = Len(data)
         /\ Len(bands.lower) = Len(data)
    /\ op = "macd" =>
         /\ Len(macdLine) = Len(data)
         /\ Len(signalLine) = Len(data)
         /\ Len(histogram) = Len(data)

\* C2 amended: SMA, EMA, the three Bollinger bands, the macd and histogram
\* series and ATR have the input's length; the signal series of calculateMACD
\* has one entry per defined macd value, max(0, n - max(fast, slow) + 1); the
\* series of calculateRSI has 1 + max(0, n - period - 1) entries.
C2_SeriesLengths ==
  pc = "done" =>
    /\ op \in {"sma", "ema"} => Len(result) = Len(data)
    /\ op = "atr" => Len(result) = Len(candles)
    /\ op = "bollinger" =>
         /\ Len(bands.upper) = Len(data)
         /\ Len(bands.middle) = Len(data)
         /\ Len(bands.lower) = Len(data)
    /\ op = "macd" =>
         /\ Len(macdLine) = Len(data)
         /\ Len(histogram) = Len(data)
         /\ Len(signalLine) = Max0(Len(data) - MaxInt(fastPeriod, slowPeriod) + 1)
    /\ op = "rsi" => Len(result) = 1 + Max0(Len(data) - period - 1)

\* A MACD result on a series of at least three points whose signal series is
\* shorter than the input while macd and histogram have the input's length.
C2_Witness ==
  /\ pc = "done" /\ op = "macd" /\ Len(data) >= 3
  /\ 0 < Len(signalLine) /\ Len(signalLine) < Len(data)
  /\ Len(macdLine) = Len(data) /\ Len(histogram) = Len(data)

\* The input of C3: two-point lines macd = [-1, 1], signal = [0, 0] and a
\* histogram ending in 5.
C3_Input ==
  /\ pc = "done" /\ op = "analyze"
  /\ macdLine = <<Num(-1), Num(1)>>
  /\ signalLine = <<Num(0), Num(0)>>
  /\ histogram # <<>> /\ Last(histogram) = Num(5)

\* C3 as stated: on that input analyzeMACDSignal returns bullish, strength 50.
C3_TwoPointCrossIsBullish50 ==
  C3_Input => (sig.type = "bullish" /\ sig.strength = Num(50))

\* C3 amended: on that input the result is {neutral, 0, "Insufficient data"}
\* (both lines have fewer than 3 points); the same crossing at the end of
\* lines of at least 3 points returns bullish with strength 50.
C3_TwoPointCrossIsInsufficient ==
  /\ C3_Input => sig = Insufficient
  /\ ( /\ pc = "done" /\ op = "analyze"
       /\ Len(macdLine) >= 3 /\ Len(signalLine) >= 3
       /\ SubSeq(macdLine, Len(macdLine) - 1, Len(macdLine)) = <<Num(-1), Num(1)>>
       /\ SubSeq(signalLine, Len(signalLine) - 1, Len(signalLine)) = <<Num(0), Num(0)>>
       /\ histogram # <<>> /\ Last(histogram) = Num(5) )
     => (sig.type = "bullish" /\ sig.strength = Num(50))

\* analyzeMACDSignal has returned on the input of C3.
C3_Witness == C3_Input /\ sig.type = "neutral" /\ sig.strength = Num(0)

\* C4: in calculateRSI, whenever the smoothed average loss is exactly zero at a
\* step (a flat series included), the value emitted for that step is 100.
C4_ZeroAvgLossGives100 ==
  (pc = "done" /\ op = "rsi") =>
    LET steps == RSISteps(data, period)
    IN  \A k \in 1..Len(steps) :
          IsZero(steps[k].avgLoss) => result[k + 1] = Num(100)

\* C5 as stated: the array returned by calculateRSI has length
\* inputLength - period and its first element is NaN.
C5_RSILengthIsInputMinusPeriod ==
  (pc = "done" /\ op = "rsi") =>
    /\ Len(result) = Len(data) - period
    /\ result # <<>> /\ isNaN(result[1])

\* C5 amended: the first element is NaN; the length is inputLength - period
\* when inputLength > period, and 1 otherwise.
C5_RSILength ==
  (pc = "done" /\ op = "rsi") =>
    /\ Len(result) = (IF Len(data) > period THEN Len(data) - period ELSE 1)
    /\ isNaN(result[1])

\* calculateRSI has returned on an input no longer than the period.
C5_Witness ==
  /\ pc = "done" /\ op = "rsi"
  /\ 0 < Len(data) /\ Len(data) <= period
  /\ result = <<NaN>>

\* C6: the Signal returned by analyzeMACDSignal has a kind in {bullish,
\* bearish, neutral} and a strength that is a number within [0, 100].
C6_SignalWellFormed ==
  (pc = "done" /\ op = "analyze") =>
    /\ sig.type \in {"bullish", "bearish", "neutral"}
    /\ Le(Num(0), sig.strength) /\ Le(sig.strength, Num(100))

\* C7: for len(s) >= p, calculateSMA(s, p) has len(s) entries, NaN at indices
\* i < p - 1, and the mean of s[i-p+1 .. i] at every index i >= p - 1.
C7_SMAIsTrailingMean ==
  (pc = "done" /\ op = "sma" /\ Len(data) >= period) =>
    /\ Len(result) = Len(data)
    /\ \A i \in 0..(Len(data) - 1) :
         IF i < period - 1 THEN isNaN(result[i + 1])
         ELSE result[i + 1] = Div(WindowSum(data, i - period + 1, i), Num(period))

\* An SMA with a window of at least 2 over a longer series: warm-up entries
\* and defined entries both occur.
C7_Witness ==
  /\ pc = "done" /\ op = "sma" /\ period >= 2 /\ Len(data) > period
  /\ isNaN(result[1]) /\ ~isNaN(result[Len(data)])

\* C8: for len(s) >= p, calculateEMA(s, p) is NaN at indices i < p - 1, equals
\* calculateSMA(s, p)[p-1] at index p - 1, and at every index i >= p equals
\* ema[i-1] + k * (s[i] - ema[i-1]) with k = 2 / (p + 1).
C8_EMASeedAndRecurrence ==
  (pc = "done" /\ op = "ema" /\ Len(data) >= period) =>
    LET k == Div(Num(2), Num(period + 1))
    IN  /\ Len(result) = Len(data)
        /\ \A i \in 0..(Len(data) - 1) :
             IF i < period - 1 THEN isNaN(result[i + 1])
             ELSE IF i = period - 1
               THEN result[i + 1] = calculateSMA(data, period)[period]
             ELSE result[i + 1] =
                    Add(result[i], Mul(k, Sub(data[i + 1], result[i])))

\* An EMA with a period of at least 2 over a longer series whose last value
\* differs from its seed: the recurrence has acted.
C8_Witness ==
  /\ pc = "done" /\ op = "ema" /\ period >= 2 /\ Len(data) > period
  /\ isNaN(result[1]) /\ ~isNaN(result[Len(data)])
  /\ result[Len(data)] # result[period]

\* C9: when the input is shorter than the period, calculateSMA and calculateEMA
\* return a series of exactly the input's length whose every entry is NaN.
C9_ShortInputAllNaN ==
  (pc = "done" /\ op \in {"sma", "ema"} /\ Len(data) < period) =>
    /\ Len(result) = Len(data)
    /\ \A i \in 1..Len(result) : isNaN(result[i])

\* calculateEMA has returned on a non-empty input shorter than the period.
C9_Witness ==
  /\ pc = "done" /\ op = "ema"
  /\ 0 < Len(data) /\ Len(data) < period
  /\ Len(result) = Len(data)

\* C10: on a strictly increasing series with more than period + 1 points every
\* calculateRSI output after the first is 100; on a strictly decreasing one
\* every such output is 0.
C10_MonotoneRSI ==
  (pc = "done" /\ op = "rsi" /\ Len(data) > period + 1) =>
    /\ StrictlyIncreasing(data) => \A k \in 2..Len(result) : result[k] = Num(100)
    /\ StrictlyDecreasing(data) => \A k \in 2..Len(result) : result[k] = Num(0)

\* calculateRSI with a period of at least 2 has returned on a strictly
\* increasing series and produced a value after the leading NaN.
C10_Witness ==
  /\ pc = "done" /\ op = "rsi" /\ period >= 2 /\ Len(data) > period + 1
  /\ StrictlyIncreasing(data)
  /\ Len(result) >= 2 /\ result[2] = Num(100)

\* Reference sum of (a[j] - c)^2 over j = lo..hi (0-based, inclusive).
RECURSIVE WindowSquares(_, _, _, _)
WindowSquares(a, lo, hi, c) ==
  IF lo > hi THEN Num(0)
  ELSE Add(Mul(Sub(a[lo + 1], c), Sub(a[lo + 1], c)), WindowSquares(a, lo + 1, hi, c))

C12_HalfWidthSquaredIsPopulationVariance ==
  (pc = "done" /\ op = "bollinger") =>
    \A i \in (period - 1)..(Len(data) - 1) :
      LET halfWidth == Sub(bands.upper[i + 1], bands.middle[i + 1])
      IN  Mul(halfWidth, halfWidth) =
            Mul(Mul(stdDev, stdDev),
                Div(WindowSquares(data, i - period + 1, i, bands.middle[i + 1]),
                    Num(period)))

\* Bands whose last half-width is irrational: the variance of the last window
\* is not a perfect square.
C12_Witness ==
  /\ pc = "done" /\ op = "bollinger" /\ period >= 2 /\ Len(data) >= period
  /\ IsSurd(bands.upper[Len(data)])

MinInt(i, j) == IF i < j THEN i ELSE j

\* The greatest element of a non-empty finite set of numbers.
Greatest(S) == CHOOSE m \in S : \A x \in S : Le(x, m)

\* C13: macd[i] is defined exactly at the indices where both
\* calculateEMA(s, fast)[i] and calculateEMA(s, slow)[i] are defined
\* (i >= max(fast, slow) - 1), where it equals fastEMA[i] - slowEMA[i]; the
\* undefined entries of macd form a single leading prefix.
C13_MacdDefinedWhereBothEMAsAre ==
  (pc = "done" /\ op = "macd") =>
    LET fastEMA == calculateEMA(data, fastPeriod)
        slowEMA == calculateEMA(data, slowPeriod)
    IN  /\ Len(macdLine) = Len(data)
        /\ \A i \in 0..(Len(data) - 1) :
             /\ ~isNaN(macdLine[i + 1])
                  <=> (~isNaN(fastEMA[i + 1]) /\ ~isNaN(slowEMA[i + 1]))
             /\ ~isNaN(macdLine[i + 1]) <=> i >= MaxInt(fastPeriod, slowPeriod) - 1
             /\ ~isNaN(macdLine[i + 1])
                  => macdLine[i + 1] = Sub(fastEMA[i + 1], slowEMA[i + 1])
        /\ \A i, j \in 1..Len(data) :
             (i < j /\ isNaN(macdLine[j])) => isNaN(macdLine[i])

\* A MACD line with fast < slow that has an undefined prefix followed by a
\* non-zero defined value.
C13_Witness ==
  /\ pc = "done" /\ op = "macd" /\ fastPeriod < slowPeriod
  /\ Len(data) > slowPeriod
  /\ isNaN(macdLine[1])
  /\ ~isNaN(macdLine[Len(data)]) /\ macdLine[Len(data)] # Num(0)

\* C14: the signal series is calculateEMA(signalPeriod) of the defined macd
\* values only; histogram[i] is NaN where macd[i] is NaN, and at the k-th
\* defined macd position histogram[i] = macd[i] - signal[k], every signal
\* value being used exactly once and in order.
C14_SignalOfDefinedMacdAndHistogramInOrder ==
  (pc = "done" /\ op = "macd") =>
    LET lead == MinInt(Len(data), MaxInt(fastPeriod, slowPeriod) - 1)
        defined == SubSeq(macdLine, lead + 1, Len(macdLine))
    IN  /\ signalLine = calculateEMA(defined, signalPeriod)
        /\ Len(histogram) = Len(macdLine)
        /\ \A i \in 1..Len(macdLine) :
             IF isNaN(macdLine[i]) THEN isNaN(histogram[i])
             ELSE histogram[i] = Sub(macdLine[i], signalLine[i - lead])
        /\ Len(signalLine) = Cardinality({i \in 1..Len(macdLine) : ~isNaN(macdLine[i])})

\* A MACD result with an undefined macd prefix and two different defined
\* histogram values: two signal values have been consumed in order.
C14_Witness ==
  /\ pc = "done" /\ op = "macd" /\ Len(data) >= 4
  /\ isNaN(macdLine[1])
  /\ ~isNaN(histogram[Len(data) - 1]) /\ ~isNaN(histogram[Len(data)])
  /\ histogram[Len(data) - 1] # histogram[Len(data)]
  /\ signalLine[Len(signalLine) - 1] # signalLine[Len(signalLine)]

\* Reference true range: TR[0] = high - low and, for i >= 1, the greatest of
\* high - low, |high - previous close|, |low - previous close|.
RefTrueRange(cs) ==
  [k \in 1..Len(cs) |->
     IF k = 1 THEN Sub(cs[1].high, cs[1].low)
     ELSE Greatest({Sub(cs[k].high, cs[k].low),
                    MathAbs(Sub(cs[k].high, cs[k - 1].close)),
                    MathAbs(Sub(cs[k].low, cs[k - 1].close))})]

\* C15: calculateATR(candles, period) equals calculateEMA(TR, period) for the
\* true range TR; for identical candles with high = low = close the result
\* is 0 at every defined index.
C15_ATRIsEMAOfTrueRange ==
  (pc = "done" /\ op = "atr") =>
    /\ result = calculateEMA(RefTrueRange(candles), period)
    /\ (\A k \in 1..Len(candles) :
          /\ candles[k] = candles[1]
          /\ candles[k].high = candles[k].low
          /\ candles[k].low = candles[k].close)
       => \A i \in 1..Len(result) : isNaN(result[i]) \/ result[i] = Num(0)

\* An ATR over two candles whose second true range is decided by the previous
\* close (it exceeds the candle's own high - low).
C15_Witness ==
  /\ pc = "done" /\ op = "atr" /\ Len(candles) = 2 /\ period <= 2
  /\ ~isNaN(result[2])
  /\ Gt(MathAbs(Sub(candles[2].high, candles[1].close)),
        Sub(candles[2].high, candles[2].low))

\* C16: analyzeMACDSignal returns {neutral, strength 0, "Insufficient data"}
\* whenever the macd line or the signal line has fewer than 3 points,
\* whatever the values in the arrays.
C16_ShortLinesAreInsufficient ==
  (pc = "done" /\ op = "analyze" /\ (Len(macdLine) < 3 \/ Len(signalLine) < 3)) =>
    /\ sig.type = "neutral"
    /\ sig.strength = Num(0)
    /\ sig.description = "Insufficient data"

\* analyzeMACDSignal has returned on a two-point macd line and a three-point
\* signal line whose last points cross upwards.
C16_Witness ==
  /\ pc = "done" /\ op = "analyze"
  /\ macdLine = <<Num(-1), Num(1)>>
  /\ signalLine = <<Num(0), Num(0), Num(0)>>
  /\ histogram = <<Num(5)>>
  /\ sig.description = "Insufficient data"

\* min(|h| * 10, 100), NaN when h is missing or NaN.
RefStrength(h) ==
  IF isNaN(h) THEN NaN
  ELSE IF AbsInt(h[1]) * 10 > 100 * h[2] THEN Num(100)
  ELSE Norm(AbsInt(h[1]) * 10, h[2])

\* C17: for lines of length >= 3 with defined last two points the result is
\* bullish with strength min(|last histogram| * 10, 100) exactly when previous
\* macd <= previous signal and current macd > current signal; bearish with the
\* same strength exactly when previous macd >= previous signal and current
\* macd < current signal; neutral with strength 0 otherwise; the two
\* conditions never hold together.
C17_CrossoverClassification ==
  ( /\ pc = "done" /\ op = "analyze"
    /\ Len(macdLine) >= 3 /\ Len(signalLine) >= 3
    /\ \A k \in 0..1 : /\ ~isNaN(macdLine[Len(macdLine) - k])
                       /\ ~isNaN(signalLine[Len(signalLine) - k]) ) =>
    LET cm == macdLine[Len(macdLine)]
        pm == macdLine[Len(macdLine) - 1]
        cs == signalLine[Len(signalLine)]
        ps == signalLine[Len(signalLine) - 1]
        h == IF histogram = <<>> THEN NaN ELSE histogram[Len(histogram)]
        bull == pm[1] * ps[2] <= ps[1] * pm[2] /\ cm[1] * cs[2] > cs[1] * cm[2]
        bear == pm[1] * ps[2] >= ps[1] * pm[2] /\ cm[1] * cs[2] < cs[1] * cm[2]
    IN  /\ ~(bull /\ bear)
        /\ sig.type = "bullish" <=> bull
        /\ sig.type = "bearish" <=> bear
        /\ sig.type = "neutral" <=> (~bull /\ ~bear)
        /\ sig.type \in {"bullish", "bearish"} => sig.strength = RefStrength(h)
        /\ sig.type = "neutral" => sig.strength = Num(0)

\* A bearish crossover from equal previous points whose strength is capped
\* at 100.
C17_Witness ==
  /\ pc = "done" /\ op = "analyze"
  /\ Len(macdLine) = 3 /\ Len(signalLine) = 3
  /\ macdLine[2] = Num(1) /\ signalLine[2] = Num(1)
  /\ macdLine[3] = Num(-1) /\ signalLine[3] = Num(0)
  /\ histogram = <<Num(-20)>>
  /\ sig.type = "bearish" /\ sig.strength = Num(100)


HelperOps == {"positionSize", "profitLoss", "riskReward"}

\* The arguments of the last helper call are invalid in the sense of the
\* specification: a non-positive price, a zero risk |entryPrice - stopLoss|,
\* or a risk percentage outside (0, 100].  Arguments a helper does not take
\* are NaN, for which every comparison is false.
InvalidArguments ==
  \/ Le(hargs.entryPrice, Num(0))
  \/ Le(hargs.stopLoss, Num(0))
  \/ Le(hargs.exitPrice, Num(0))
  \/ Le(hargs.takeProfit, Num(0))
  \/ IsZero(MathAbs(Sub(hargs.entryPrice, hargs.stopLoss)))
  \/ Le(hargs.riskPercentage, Num(0))
  \/ Gt(hargs.riskPercentage, Num(100))

\* C19 as stated: each arithmetic helper throws, and returns no result,
\* whenever a price is non-positive, the risk |entryPrice - stopLoss| is zero,
\* or the risk percentage is outside (0, 100].
C19_InvalidArgumentsThrow ==
  (pc = "done" /\ op \in HelperOps /\ InvalidArguments) => outcome.threw

\* C20: for fast <= slow, the pipeline calculateMACD -> analyzeMACDSignal
\* yields a neutral result of strength 0 for every price series with fewer
\* than slow + signal points, and it never yields bullish or bearish while
\* one of the signal line's last two values is still NaN (warm-up).
C20_PipelineWarmupIsNeutral ==
  (pc = "done" /\ op = "pipeline") =>
    /\ (fastPeriod <= slowPeriod /\ Len(data) < slowPeriod + signalPeriod) =>
         /\ sig.type = "neutral"
         /\ sig.strength = Num(0)
    /\ (\/ isNaN(At(signalLine, Len(signalLine) - 1))
        \/ isNaN(At(signalLine, Len(signalLine) - 2))) =>
         sig.type \notin {"bullish", "bearish"}

\* A series one point short of slow + signal that passes the analyzer's length
\* guard: three macd values, a signal line whose last value is the only defined
\* one, and the crossover test reached and answered "no clear signal".
C20_Witness ==
  /\ pc = "done" /\ op = "pipeline"
  /\ fastPeriod <= slowPeriod
  /\ Len(data) = slowPeriod + signalPeriod - 1
  /\ Len(signalLine) >= 3
  /\ ~isNaN(Last(signalLine))
  /\ isNaN(At(signalLine, Len(signalLine) - 2))
  /\ Gt(Last(macdLine), Last(signalLine))
  /\ sig.description = "No clear MACD signal"


\* The bar (1-based index into the macd series) whose macd value is the k-th
\* defined one: the bar that entry k of the compacted signal series belongs to.
BarOfSignal(k) ==
  CHOOSE i \in 0..Len(macdLine) :
    \/ i = 0 /\ DefinedUpTo(macdLine, Len(macdLine)) < k
    \/ i > 0 /\ ~isNaN(macdLine[i]) /\ DefinedUpTo(macdLine, i) = k

\* C21: when the three outputs of calculateMACD are passed to
\* analyzeMACDSignal, the last and the second-to-last entry of the compacted
\* signal series belong to the last and the second-to-last bar of the macd
\* series; a bullish result implies that the last histogram value equals
\* current macd - current signal and is > 0, a bearish result that it is < 0.
C21_PipelineAlignment ==
  (pc = "done" /\ op = "pipeline") =>
    LET n == Len(macdLine)
        c == Len(signalLine)
    IN  /\ c >= 1 => BarOfSignal(c) = n
        /\ c >= 2 => BarOfSignal(c - 1) = n - 1
        /\ sig.type \in {"bullish", "bearish"} =>
             Last(histogram) = Sub(Last(macdLine), Last(signalLine))
        /\ sig.type = "bullish" => Gt(Last(histogram), Num(0))
        /\ sig.type = "bearish" => Lt(Last(histogram), Num(0))

\* A bullish crossover found by the pipeline on a signal series shorter than
\* the macd series.
C21_Witness ==
  /\ pc = "done" /\ op = "pipeline"
  /\ sig.type = "bullish"
  /\ Len(signalLine) < Len(macdLine)
  /\ Gt(Last(histogram), Num(0))


\* The words of a header value, in order.
RECURSIVE HeaderWords(_)
HeaderWords(h) ==
  IF h = <<>> THEN <<>>
  ELSE IF Head(h) = " " THEN HeaderWords(Tail(h))
  ELSE <<Head(h)>> \o HeaderWords(Tail(h))

\* The request carries a well-formed 'Bearer <token>' Authorization header.
WellFormedBearer ==
  /\ Len(HeaderWords(req.authHeader)) = 2
  /\ HeaderWords(req.authHeader)[1] \in {"Bearer", "BEARER", "bearer"}

\* The token the request presents: the Bearer token of a well-formed header,
\* else the value of the auth_token cookie ("" when there is none).
RequestToken ==
  IF WellFormedBearer THEN HeaderWords(req.authHeader)[2]
  ELSE IF req.cookie.present THEN req.cookie.value
  ELSE ""

\* The injected TokenMaker verifies the token successfully.
Accepted(token) == token \in Tokens /\ env.users[token] # -1

CallsOf(fn) == {i \in 1..Len(calls) : calls[i].fn = fn}

\* C22: the next handler is invoked only after a successful VerifyToken on the
\* token the request presents (well-formed Bearer header, else cookie); a
\* well-formed Bearer token that fails verification is answered 401 with a
\* single VerifyToken call (the cookie is not tried); a request without a
\* verified token is answered 401 and the next handler is never called.
C22_NextOnlyAfterVerifiedToken ==
  (pc = "done" /\ op = "auth") =>
    /\ \A i \in CallsOf("next.ServeHTTP") :
         /\ Accepted(RequestToken)
         /\ \E j \in CallsOf("VerifyToken") :
              j < i /\ calls[j].ok /\ calls[j].token = RequestToken
         /\ reply.status # 401
    /\ (WellFormedBearer /\ ~Accepted(RequestToken)) =>
         /\ reply.status = 401
         /\ CallsOf("next.ServeHTTP") = {}
         /\ Cardinality(CallsOf("VerifyToken")) = 1
         /\ \A j \in CallsOf("VerifyToken") :
              calls[j].token = RequestToken /\ ~calls[j].ok
    /\ (\A j \in CallsOf("VerifyToken") : ~calls[j].ok) =>
         /\ reply.status = 401
         /\ CallsOf("next.ServeHTTP") = {}

\* A request whose Bearer token is rejected while its cookie holds a token
\* the TokenMaker would accept, answered 401.
C22_Witness ==
  /\ pc = "done" /\ op = "auth"
  /\ WellFormedBearer /\ ~Accepted(RequestToken)
  /\ req.cookie.present /\ Accepted(req.cookie.value)
  /\ reply.status = 401


\* The input of the last CreateAndPush passes validation: positive user id,
\* title of 1..100 bytes, message of 1..500 bytes, one of the four types.
ValidInput ==
  /\ req.UserID >= 1
  /\ req.TitleLen \in 1..100
  /\ req.MessageLen \in 1..500
  /\ req.Type \in {"info", "success", "warning", "error"}

\* C23: in CreateAndPush, repo.Save is called only if validation passed;
\* hub.SendToUser is called only after repo.Save returned success; a
\* validation or save failure is returned as an error with nothing sent; a
\* SendToUser failure or a nil hub does not fail the operation, which returns
\* nil with the notification saved (repo.Save called on it once, successfully).
C23_PersistenceBeforeDelivery ==
  (pc = "done" /\ op = "createAndPush") =>
    /\ CallsOf("repo.Save") # {} => ValidInput
    /\ \A i \in CallsOf("hub.SendToUser") :
         \E j \in CallsOf("repo.Save") : j < i /\ calls[j].ok
    /\ ~ValidInput =>
         /\ reply.error = "validation failed"
         /\ CallsOf("repo.Save") = {} /\ CallsOf("hub.SendToUser") = {}
    /\ (ValidInput /\ ~env.saveOK) =>
         /\ reply.error = "failed to save notification"
         /\ CallsOf("hub.SendToUser") = {}
    /\ (ValidInput /\ env.saveOK) =>
         /\ reply = [error |-> "", cause |-> ""]
         /\ Cardinality(CallsOf("repo.Save")) = 1
         /\ \A j \in CallsOf("repo.Save") :
              /\ calls[j].ok
              /\ calls[j].notification.UserID = req.UserID
              /\ calls[j].notification.Type = req.Type
              /\ ~calls[j].notification.IsRead
         /\ Cardinality(CallsOf("hub.SendToUser")) =
              (IF env.hub = "nil" THEN 0 ELSE 1)

\* A notification was saved, the push to the hub failed, and the operation
\* still returned nil.
C23_Witness ==
  /\ pc = "done" /\ op = "createAndPush"
  /\ env.hub = "fail"
  /\ \E i \in CallsOf("hub.SendToUser") : ~calls[i].ok
  /\ \E j \in CallsOf("repo.Save") : calls[j].ok
  /\ reply.error = ""

\* The unread notifications the repository holds for the user asked about.
UnreadOfUser ==
  {i \in 1..Len(env.rows) :
     env.rows[i].UserID = req.userID /\ ~env.rows[i].IsRead}

\* C24 as stated: for any set of notifications the repository holds,
\* GetUnreadCount returns the number of the user's notifications with IsRead
\* false.
C24_ReturnsUnreadCount ==
  (pc = "done" /\ op = "getUnreadCount" /\ reply.error = "") =>
    reply.count = Cardinality(UnreadOfUser)

====
